---------------------------- MODULE Spec2Model ----------------------------
(***************************************************************************)
(* K3Y open-session finder: the time-zone converter, the hour-slot         *)
(* generator, the gap finder and the open-slots orchestrator of            *)
(* src/k3y_open_time_shifts.py (and its variant src/k3y_open_time_slots.py),*)
(* their command-line run, and the page run of src/dashboard.py.           *)
(*                                                                         *)
(* Python strings are TLA+ strings (TLC gives Len, SubSeq and \o on them). *)
(* A datetime is an integer count of minutes from midnight of the day the  *)
(* code anchors on (1900-01-01 for strptime("%H:%M"), today for            *)
(* convert_to_utc); it may be negative or exceed a day, exactly as the     *)
(* datetime rolls into the previous or the next day.                       *)
(***************************************************************************)
EXTENDS Integers, Sequences, FiniteSets, TLC

VARIABLES
    pc,               \* position of the running call
    time_zone_abbr,   \* argument: time zone abbreviation
    time_str,         \* argument of the converters (local or UTC "HH:MM")
    utc_result,       \* outcome of convert_to_utc
    local_result,     \* outcome of convert_to_local
    start_time,       \* generate_hours argument
    end_time,         \* generate_hours argument
    hours,            \* generate_hours result
    data,             \* find_gaps argument: booking records
    required_ranges,  \* find_gaps argument: UTC ranges
    area,             \* find_gaps argument: selected area
    daily_hours,      \* find_gaps local: date -> booked hour labels
    open_slots,       \* find_gaps local: date -> open hour labels
    outcome,          \* outcome of find_gaps / get_open_slots
    module_variant,   \* which file's code runs: "shifts" or "slots"
    entry_point,      \* orchestrator called: "get_open_slots" or "get_open_slots_new"
    local_day_start,  \* orchestrator argument
    local_day_end,    \* orchestrator argument
    schedule,         \* the bookings the schedule source holds
    response,         \* what the schedule source answered to the fetch
    update_info,      \* freshness marker returned by the fetch
    fetches,          \* number of requests sent to the schedule source
    settings_json,    \* the settings.json file: absent, or the settings it holds
    args,             \* command-line flags (an absent flag is "")
    settings,         \* the CLI's settings dict
    stdout,           \* lines the CLI printed
    session_state,    \* st.session_state of the dashboard session
    selection,        \* values of the four sidebar select boxes
    clicked,          \* the button whose click started the rerun
    clock,            \* seconds of wall time
    cache,            \* entries of st.cache_data for get_cached_open_slots
    cache_log,        \* get_open_slots calls and cache clears, in order
    cached_result,    \* what get_cached_open_slots handed to the page
    gaps,             \* the dashboard's `gaps` after the unpacking at line 300
    page,             \* elements the dashboard run has shown
    runs              \* number of script runs of the session

convVars == <<time_str, utc_result, local_result>>
hoursVars == <<start_time, end_time, hours>>
gapsVars == <<data, required_ranges, area, daily_hours, open_slots, outcome>>
orchVars == <<entry_point, local_day_start, local_day_end, schedule, response,
              update_info, fetches>>

cliVars == <<settings_json, args, settings, stdout>>
dashVars == <<session_state, selection, clicked, clock, cache, cache_log, cached_result,
              gaps, page, runs>>

vars == <<pc, time_zone_abbr, module_variant, convVars, hoursVars, gapsVars, orchVars,
          cliVars, dashVars>>

(***************************************************************************)
(* Bounds of the model.                                                    *)
(***************************************************************************)
MaxBookings == 2

\* script runs of one dashboard session
MaxRuns == 3

(***************************************************************************)
(* Python values: a call returns a value, returns None, or raises.         *)
(***************************************************************************)
Return(v) == [kind |-> "return", value |-> v]
ReturnNone == [kind |-> "none", value |-> ""]
Raise(msg) == [kind |-> "raise", value |-> msg]
NotCalled == [kind |-> "idle", value |-> ""]

(***************************************************************************)
(* String helpers.                                                         *)
(***************************************************************************)
CharAt(s, i) == SubSeq(s, i, i)

Digits == "0123456789"

IsDigit(c) == \E i \in 1..10 : CharAt(Digits, i) = c

DigitVal(c) == (CHOOSE i \in 1..10 : CharAt(Digits, i) = c) - 1

\* str in str: Python's substring containment
Contains(needle, hay) ==
    \E i \in 1..(Len(hay) - Len(needle) + 1) :
        SubSeq(hay, i, i + Len(needle) - 1) = needle

\* positions of the separator in s
Positions(s, sep) == {i \in 1..Len(s) : CharAt(s, i) = sep}

\* int(s) succeeds on a non-empty run of decimal digits (the inputs of the
\* model carry no sign, underscore or surrounding blank)
IsInt(s) == Len(s) > 0 /\ \A i \in 1..Len(s) : IsDigit(CharAt(s, i))

RECURSIVE IntOf(_)
IntOf(s) ==
    IF Len(s) = 0 THEN 0
    ELSE 10 * IntOf(SubSeq(s, 1, Len(s) - 1)) + DigitVal(CharAt(s, Len(s)))

\* "%02d"
Fmt2(n) == CharAt(Digits, (n \div 10) + 1) \o CharAt(Digits, (n % 10) + 1)

\* timedelta(hours=1) and timedelta(days=1), in minutes
HourMinutes == 60
DayMinutes == 24 * HourMinutes

(***************************************************************************)
(* datetime.strptime(s, "%H:%M"): one or two digits of hour (0..23), a     *)
(* colon, one or two digits of minute (0..59); the date is 1900-01-01.     *)
(***************************************************************************)
HourPart(s) == SubSeq(s, 1, (CHOOSE i \in Positions(s, ":") : TRUE) - 1)
MinutePart(s) == SubSeq(s, (CHOOSE i \in Positions(s, ":") : TRUE) + 1, Len(s))

ParsesHM(s) ==
    /\ Cardinality(Positions(s, ":")) = 1
    /\ IsInt(HourPart(s)) /\ Len(HourPart(s)) <= 2 /\ IntOf(HourPart(s)) <= 23
    /\ IsInt(MinutePart(s)) /\ Len(MinutePart(s)) <= 2 /\ IntOf(MinutePart(s)) <= 59

strptime_HM(s) == IntOf(HourPart(s)) * HourMinutes + IntOf(MinutePart(s))

\* dt.strftime("%H:%M"): the time of day, the date dropped
strftime_HM(dt) == Fmt2((dt % DayMinutes) \div HourMinutes) \o ":" \o Fmt2(dt % HourMinutes)

\* dt.strftime("%H:00"): the hour of day, the minutes replaced by 00
strftime_H00(dt) == Fmt2((dt % DayMinutes) \div HourMinutes) \o ":00"

\* dt.strftime("%I:%M %p"): 12-hour clock with AM/PM
strftime_IMp(dt) ==
    LET h == (dt % DayMinutes) \div HourMinutes
        h12 == IF h % 12 = 0 THEN 12 ELSE h % 12
    IN  Fmt2(h12) \o ":" \o Fmt2(dt % HourMinutes) \o " " \o (IF h < 12 THEN "AM" ELSE "PM")

(***************************************************************************)
(* VALID_TIME_ZONES: abbreviation -> UTC offset in hours, in the order the *)
(* dict literal lists its keys.                                            *)
(***************************************************************************)
ZoneKeys == <<"EST", "CST", "MST", "PST", "AKST", "HAST", "SST", "CHST">>

ZoneSet == {ZoneKeys[i] : i \in 1..Len(ZoneKeys)}

VALID_TIME_ZONES ==
    [z \in ZoneSet |->
        CASE z = "EST" -> -5 [] z = "CST" -> -6 [] z = "MST" -> -7
          [] z = "PST" -> -8 [] z = "AKST" -> -9 [] z = "HAST" -> -10
          [] z = "SST" -> -11 [] z = "CHST" -> 10]

\* ', '.join(VALID_TIME_ZONES)
RECURSIVE Join(_)
Join(keys) ==
    IF Len(keys) = 0 THEN ""
    ELSE IF Len(keys) = 1 THEN keys[1]
    ELSE keys[1] \o ", " \o Join(Tail(keys))

InvalidZoneMessage(tz) ==
    "Invalid TIME_ZONE '" \o tz \o "'. Must be one of: " \o Join(ZoneKeys)

\* a slip of sign: the offset added where convert_to_utc subtracts it
convert_to_utc_offset_added(local_time_str, tz) ==
    IF tz \notin ZoneSet THEN Raise(InvalidZoneMessage(tz))
    ELSE IF Cardinality(Positions(local_time_str, ":")) # 1
         THEN Raise("not enough values to unpack")
    ELSE IF ~(IsInt(HourPart(local_time_str)) /\ IsInt(MinutePart(local_time_str)))
         THEN Raise("invalid literal for int() with base 10")
    ELSE IF IntOf(HourPart(local_time_str)) > 23 \/ IntOf(MinutePart(local_time_str)) > 59
         THEN Raise("hour or minute out of range")
    ELSE Return(strftime_HM(IntOf(HourPart(local_time_str)) * HourMinutes
                              + IntOf(MinutePart(local_time_str))
                              + VALID_TIME_ZONES[tz] * HourMinutes))

(***************************************************************************)
(* convert_to_utc(local_time_str, time_zone_abbr)                          *)
(***************************************************************************)
convert_to_utc(local_time_str, tz) ==
    IF tz \notin ZoneSet THEN Raise(InvalidZoneMessage(tz))
    ELSE IF Cardinality(Positions(local_time_str, ":")) # 1
         THEN Raise("not enough values to unpack")
    ELSE IF ~(IsInt(HourPart(local_time_str)) /\ IsInt(MinutePart(local_time_str)))
         THEN Raise("invalid literal for int() with base 10")
    ELSE IF IntOf(HourPart(local_time_str)) > 23 \/ IntOf(MinutePart(local_time_str)) > 59
         THEN Raise("hour or minute out of range")
    ELSE LET local_dt == IntOf(HourPart(local_time_str)) * HourMinutes
                           + IntOf(MinutePart(local_time_str))
             utc_dt == local_dt - VALID_TIME_ZONES[tz] * HourMinutes
         IN  Return(strftime_HM(utc_dt))

\* a slip of sign: the offset subtracted where convert_to_local adds it
convert_to_local_offset_subtracted(utc_time_str, tz) ==
    IF tz \notin ZoneSet THEN Raise(InvalidZoneMessage(tz))
    ELSE IF ~ParsesHM(utc_time_str) THEN ReturnNone
    ELSE Return(strftime_IMp(strptime_HM(utc_time_str) - VALID_TIME_ZONES[tz] * HourMinutes))

\* the zone check moved inside the try block, after the parse
convert_to_local_parse_first(utc_time_str, tz) ==
    IF ~ParsesHM(utc_time_str) THEN ReturnNone
    ELSE IF tz \notin ZoneSet THEN Raise(InvalidZoneMessage(tz))
    ELSE Return(strftime_IMp(strptime_HM(utc_time_str) + VALID_TIME_ZONES[tz] * HourMinutes))

(***************************************************************************)
(* convert_to_local(utc_time_str, time_zone_abbr)                          *)
(***************************************************************************)
convert_to_local(utc_time_str, tz) ==
    IF tz \notin ZoneSet THEN Raise(InvalidZoneMessage(tz))
    ELSE IF ~ParsesHM(utc_time_str) THEN ReturnNone
    ELSE Return(strftime_IMp(strptime_HM(utc_time_str) + VALID_TIME_ZONES[tz] * HourMinutes))

(***************************************************************************)
(* generate_hours(start_time, end_time): both arguments parse as "%H:%M".  *)
(***************************************************************************)
RECURSIVE HoursFrom(_, _)
HoursFrom(current, end) ==
    IF current < end
    THEN <<strftime_H00(current)>> \o HoursFrom(current + HourMinutes, end)
    ELSE <<>>

\* the wrap to the next day forgotten
generate_hours_no_wrap(start, end) == HoursFrom(strptime_HM(start), strptime_HM(end))

generate_hours(start, end) ==
    LET s == strptime_HM(start)
        e0 == strptime_HM(end)
        e == IF e0 < s THEN e0 + DayMinutes ELSE e0
    IN  HoursFrom(s, e)

(***************************************************************************)
(* find_gaps(data, required_ranges, time_zone_abbr, area)                  *)
(* A booking is the tuple <<date, start, end, k3y_area>>.  A dict is the   *)
(* sequence of its entries in insertion order.                             *)
(***************************************************************************)
Range(seq) == {seq[i] : i \in 1..Len(seq)}

Front(seq) == SubSeq(seq, 1, Len(seq) - 1)

Last(seq) == seq[Len(seq)]

\* `if area in k3y_area`
AreaMatches(a, k3y_area) == Contains(a, k3y_area)

\* daily_hours[date] = set() when absent, then daily_hours[date].update(hs)
UpdateHours(dh, date, hs) ==
    IF \E i \in 1..Len(dh) : dh[i].date = date
    THEN [i \in 1..Len(dh) |->
            IF dh[i].date = date THEN [dh[i] EXCEPT !.hours = @ \cup hs] ELSE dh[i]]
    ELSE Append(dh, [date |-> date, hours |-> hs])

\* a first loop that opens a date for every record, whatever its area
RECURSIVE BookedHours_every_date(_, _)
BookedHours_every_date(d, a) ==
    IF d = <<>> THEN <<>>
    ELSE LET b == Last(d)
             prev == BookedHours_every_date(Front(d), a)
         IN  UpdateHours(prev, b[1],
                         IF AreaMatches(a, b[4]) THEN Range(generate_hours(b[2], b[3]))
                         ELSE {})

\* a first loop that books the hours after midnight on the following date
RECURSIVE BookedHours_split_at_midnight(_, _)
BookedHours_split_at_midnight(d, a) ==
    IF d = <<>> THEN <<>>
    ELSE LET b == Last(d)
             prev == BookedHours_split_at_midnight(Front(d), a)
             following == IF b[1] = "12/31/24" THEN "01/01/25" ELSE "01/02/25"
         IN  IF ~AreaMatches(a, b[4]) THEN prev
             ELSE IF strptime_HM(b[3]) < strptime_HM(b[2])
             THEN UpdateHours(UpdateHours(prev, b[1], Range(generate_hours(b[2], "23:59"))),
                              following, Range(generate_hours("00:00", b[3])))
             ELSE UpdateHours(prev, b[1], Range(generate_hours(b[2], b[3])))

\* the first loop: scheduled hours by date
RECURSIVE BookedHours(_, _)
BookedHours(d, a) ==
    IF d = <<>> THEN <<>>
    ELSE LET b == Last(d)
             prev == BookedHours(Front(d), a)
         IN  IF AreaMatches(a, b[4])
             THEN UpdateHours(prev, b[1], Range(generate_hours(b[2], b[3])))
             ELSE prev

\* set(generate_hours("00:00", "23:00"))
full_day_schedule == Range(generate_hours("00:00", "23:00"))

\* open_slots = full_day_schedule - scheduled_hours, for each date
OpenSlots(dh) ==
    [i \in 1..Len(dh) |-> [date |-> dh[i].date, hours |-> full_day_schedule \ dh[i].hours]]

\* f"{date}" in k3y_open_time_shifts.py, f"1-{date}" in k3y_open_time_slots.py
DateField(variant, date) == IF variant = "slots" THEN "1-" \o date ELSE date

\* f"{x}" of a converter's result
Text(r) == IF r.kind = "none" THEN "None" ELSE r.value

\* the dict appended for one open hour
GapRecord(variant, date, hour, tz) ==
    LET end_dt == strptime_HM(hour) + HourMinutes
    IN  [Date |-> DateField(variant, date),
         OpenSlotUTC |-> hour \o " - " \o strftime_HM(end_dt) \o " UTC",
         gap_label |-> "Open Slot (" \o tz \o ")",
         OpenSlotLocal |-> Text(convert_to_local(hour, tz)) \o " - "
                            \o Text(convert_to_local(strftime_HM(end_dt), tz))]

\* the <<date, hour>> pairs for which the loops reach the append, in order
RECURSIVE HoursOpen(_, _)
HoursOpen(hs, open) ==
    IF hs = <<>> THEN <<>>
    ELSE (IF Head(hs) \in open THEN <<Head(hs)>> ELSE <<>>) \o HoursOpen(Tail(hs), open)

RECURSIVE RangesOpen(_, _)
RangesOpen(ranges, open) ==
    IF ranges = <<>> THEN <<>>
    ELSE HoursOpen(generate_hours(Head(ranges)[1], Head(ranges)[2]), open)
            \o RangesOpen(Tail(ranges), open)

RECURSIVE DatesOpen(_, _)
DatesOpen(os, ranges) ==
    IF os = <<>> THEN <<>>
    ELSE LET hs == RangesOpen(ranges, Head(os).hours)
         IN  [i \in 1..Len(hs) |-> <<Head(os).date, hs[i]>>] \o DatesOpen(Tail(os), ranges)

(***************************************************************************)
(* gaps.sort(key=lambda x: (x['Date'], strptime(first word of UTC label))) *)
(* Strings compare by code point; the characters of a date are ordered as  *)
(* in ASCII: '-' < '/' < '0' < ... < '9'.                                  *)
(***************************************************************************)
CodeOrder == "-/0123456789"

Ord(c) == CHOOSE i \in 1..Len(CodeOrder) : CharAt(CodeOrder, i) = c

RECURSIVE StrLess(_, _)
StrLess(x, y) ==
    IF Len(y) = 0 THEN FALSE
    ELSE IF Len(x) = 0 THEN TRUE
    ELSE IF CharAt(x, 1) = CharAt(y, 1)
         THEN StrLess(SubSeq(x, 2, Len(x)), SubSeq(y, 2, Len(y)))
    ELSE Ord(CharAt(x, 1)) < Ord(CharAt(y, 1))

\* x['Open Slot (UTC)'].split(' ')[0], parsed
SortTime(g) == strptime_HM(SubSeq(g.OpenSlotUTC, 1, (CHOOSE i \in Positions(g.OpenSlotUTC, " ") :
                   \A j \in Positions(g.OpenSlotUTC, " ") : i <= j) - 1))

\* key(x) <= key(y)
KeyLeq(x, y) ==
    \/ StrLess(x.Date, y.Date)
    \/ x.Date = y.Date /\ SortTime(x) <= SortTime(y)

\* list.sort is stable: an element goes after every element whose key is not greater
RECURSIVE InsertSorted(_, _)
InsertSorted(sorted, x) ==
    IF sorted = <<>> THEN <<x>>
    ELSE IF KeyLeq(Last(sorted), x) THEN Append(sorted, x)
    ELSE Append(InsertSorted(Front(sorted), x), Last(sorted))

RECURSIVE SortGaps(_)
SortGaps(gs) ==
    IF gs = <<>> THEN <<>> ELSE InsertSorted(SortGaps(Front(gs)), Last(gs))

\* the whole call: the first convert_to_local of an invalid zone raises out of it
find_gaps(d, ranges, tz, a, variant) ==
    LET emitted == DatesOpen(OpenSlots(BookedHours(d, a)), ranges)
    IN  IF emitted # <<>> /\ tz \notin ZoneSet
        THEN Raise(InvalidZoneMessage(tz))
        ELSE Return(SortGaps([i \in 1..Len(emitted) |->
                                GapRecord(variant, emitted[i][1], emitted[i][2], tz)]))

(***************************************************************************)
(* Schedule source.  The answer to a GET is a failed request (timeout,     *)
(* connection error, non-2xx status) or a document.  An HTML document may  *)
(* hold the table or not and carries its "(Update: ...)" text inside an    *)
(* <em>, outside any <em>, or not at all; a JSON document is a list of     *)
(* records, an object holding the list under "records" beside a           *)
(* "generated_utc" string, or something else.                              *)
(***************************************************************************)
RequestFailures == {"timeout", "connection_error", "http_error"}

UpdateForms == {"in_em", "text_other_em", "text_no_em", "absent"}

JsonShapes == {"list", "object", "other"}

Failure(k) == [kind |-> k, utf8 |-> TRUE, table |-> FALSE, update |-> "absent",
               shape |-> "other", generated_utc |-> "", rows |-> <<>>]

HtmlPage(hasTable, form, isUtf8, rows) ==
    [kind |-> "html", utf8 |-> isUtf8, table |-> hasTable, update |-> form,
     shape |-> "other", generated_utc |-> "", rows |-> rows]

\* the "generated_utc" string of an object-shaped document
GeneratedUtc == "2025-01-05T12:00:00Z"

JsonDocument(sh, rows) ==
    [kind |-> "json", utf8 |-> TRUE, table |-> FALSE, update |-> "absent",
     shape |-> sh, generated_utc |-> IF sh = "object" THEN GeneratedUtc ELSE "",
     rows |-> rows]

HtmlResponses(rows) ==
    {Failure(k) : k \in RequestFailures}
        \cup {HtmlPage(t, u, e, rows) : t \in BOOLEAN, u \in UpdateForms, e \in BOOLEAN}

JsonResponses(rows) ==
    {Failure(k) : k \in RequestFailures} \cup {JsonDocument(sh, rows) : sh \in JsonShapes}

\* the text of the page's "(Update: ...)" note and of an unrelated <em>
UpdateText == "2025-01-05 12:00 UTC"
OtherEmText == "SKCC"

\* [r for r in rows if area in r.k3y_area]
RECURSIVE FilterArea(_, _)
FilterArea(rows, a) ==
    IF rows = <<>> THEN <<>>
    ELSE (IF AreaMatches(a, Head(rows)[4]) THEN <<Head(rows)>> ELSE <<>>)
            \o FilterArea(Tail(rows), a)

\* fetch_k3y_data(url, area) of k3y_open_time_shifts.py: <<outcome of the call>>,
\* a returned value being the pair <<rows, update_info>>
fetch_k3y_data(resp, a) ==
    IF resp.kind \in RequestFailures THEN Return(<<<<>>, ReturnNone>>)
    ELSE IF resp.update = "text_no_em" THEN Raise("UnboundLocalError: em")
    ELSE LET info == CASE resp.update = "in_em" -> Return(UpdateText)
                       [] resp.update = "text_other_em" -> Return(OtherEmText)
                       [] OTHER -> ReturnNone
             rows == IF resp.table THEN FilterArea(resp.rows, a) ELSE <<>>
         IN  Return(<<rows, info>>)

\* fetch_k3y_data(url, area) of k3y_open_time_slots.py: returns the rows only
fetch_k3y_data_slots(resp, a) ==
    IF resp.kind = "timeout" \/ resp.kind = "connection_error" THEN Return(<<>>)
    ELSE IF ~resp.utf8 THEN Raise("UnicodeDecodeError")
    ELSE IF resp.kind = "http_error" THEN Return(<<>>)
    ELSE Return(IF resp.table THEN FilterArea(resp.rows, a) ELSE <<>>)

\* fetch_k3y_data_new(area): nothing is caught
fetch_k3y_data_new(resp, a) ==
    IF resp.kind \in RequestFailures THEN Raise("requests." \o resp.kind)
    ELSE IF resp.shape # "list" THEN Raise("schedule-cache.json must contain a list")
    ELSE Return(<<resp.rows, ReturnNone>>)

\* required_ranges = [(convert_to_utc(start, tz), convert_to_utc(end, tz))]
RequiredRangesOf(local_start, local_end, tz) ==
    LET s == convert_to_utc(local_start, tz)
        e == convert_to_utc(local_end, tz)
    IN  IF s.kind = "raise" THEN s
        ELSE IF e.kind = "raise" THEN e
        ELSE Return(<<<<s.value, e.value>>>>)

(***************************************************************************)
(* Input sets.                                                             *)
(***************************************************************************)
WholeHours == {Fmt2(h) \o ":00" : h \in 0..23}

\* quarter-hour grid of valid "HH:MM" strings
GridTimes == {Fmt2(h) \o ":" \o Fmt2(m) : h \in 0..23, m \in {0, 15, 30}}

\* strings the converters may be handed: whole hours, off-hour times, the
\* AM/PM form of the settings defaults, an unpadded time, an impossible hour
ConverterInputs == WholeHours \cup {"07:30", "09:15", "07:00 AM", "7:05", "24:00", "0900"}

\* an abbreviation outside the table, and a lower-case spelling of a key
InvalidZones == {"XYZ", "est"}

(***************************************************************************)
(* Settings: the four keys of settings.json, the command-line flags, the   *)
(* dashboard session.                                                      *)
(***************************************************************************)
Settings(tz, a, start, end) ==
    [TIME_ZONE_ABBR |-> tz, K3Y_AREA |-> a, LOCAL_DAY_START |-> start, LOCAL_DAY_END |-> end]

NoSettings == Settings("", "", "", "")

\* settings.json is absent, or holds a settings dict
NoFile == [present |-> FALSE, content |-> NoSettings]
FileOf(st) == [present |-> TRUE, content |-> st]

\* parse_args() with no flag given: every attribute is None
NoArgs == [time_zone |-> "", area |-> "", start |-> "", end |-> ""]

\* a session before its first script run, and select boxes never rendered
NewSession == [has_settings |-> FALSE, settings |-> NoSettings, editor_key |-> 0]
NoSelection == [tz |-> "", area |-> "", start |-> "", end |-> ""]

IdleCli == /\ settings_json = NoFile /\ args = NoArgs /\ settings = NoSettings /\ stdout = <<>>

IdleDashboard ==
    /\ session_state = NewSession /\ selection = NoSelection /\ clicked = "none"
    /\ clock = 0 /\ cache = {} /\ cache_log = <<>> /\ cached_result = NotCalled
    /\ gaps = NotCalled /\ page = <<>> /\ runs = 0

IdleConverter == /\ time_str = "" /\ utc_result = NotCalled /\ local_result = NotCalled
IdleHours == /\ start_time = "" /\ end_time = "" /\ hours = <<>>
IdleGaps ==
    /\ data = <<>> /\ required_ranges = <<>> /\ area = ""
    /\ daily_hours = <<>> /\ open_slots = <<>> /\ outcome = NotCalled
    /\ module_variant = "shifts"

IdleOrchestrator ==
    /\ entry_point = "" /\ local_day_start = "" /\ local_day_end = ""
    /\ schedule = <<>> /\ response = NotCalled /\ update_info = NotCalled /\ fetches = 0

(***************************************************************************)
(* Converter calls.                                                        *)
(***************************************************************************)
InitConv ==
    /\ pc = "conv_call"
    /\ time_zone_abbr \in ZoneSet \cup InvalidZones
    /\ time_str \in ConverterInputs
    /\ utc_result = NotCalled /\ local_result = NotCalled
    /\ IdleHours /\ IdleGaps /\ IdleOrchestrator /\ IdleCli /\ IdleDashboard

\* convert_to_utc(time_str, time_zone_abbr)
ConvertToUtc ==
    /\ pc = "conv_call"
    /\ utc_result' = convert_to_utc(time_str, time_zone_abbr)
    /\ pc' = "utc_done"
    /\ UNCHANGED <<cliVars, dashVars, time_zone_abbr, module_variant, time_str, local_result,
                   hoursVars, gapsVars, orchVars>>

\* convert_to_local(time_str, time_zone_abbr), time_str read as a UTC time
ConvertToLocal ==
    /\ pc = "conv_call"
    /\ local_result' = convert_to_local(time_str, time_zone_abbr)
    /\ pc' = "local_done"
    /\ UNCHANGED <<cliVars, dashVars, time_zone_abbr, module_variant, time_str, utc_result,
                   hoursVars, gapsVars, orchVars>>

\* convert_to_local(convert_to_utc(time_str, tz), tz)
ConvertBack ==
    /\ pc = "utc_done"
    /\ utc_result.kind = "return"
    /\ local_result' = convert_to_local(utc_result.value, time_zone_abbr)
    /\ pc' = "round_trip_done"
    /\ UNCHANGED <<cliVars, dashVars, time_zone_abbr, module_variant, time_str, utc_result,
                   hoursVars, gapsVars, orchVars>>

NextConv == ConvertToUtc \/ ConvertToLocal \/ ConvertBack

SpecConv == InitConv /\ [][NextConv]_vars

(***************************************************************************)
(* Hour-slot generator calls.                                              *)
(***************************************************************************)
InitHours ==
    /\ pc = "hours_call"
    /\ start_time \in GridTimes
    /\ end_time \in GridTimes
    /\ hours = <<>>
    /\ time_zone_abbr = ""
    /\ IdleConverter /\ IdleGaps /\ IdleOrchestrator /\ IdleCli /\ IdleDashboard

GenerateHours ==
    /\ pc = "hours_call"
    /\ hours' = generate_hours(start_time, end_time)
    /\ pc' = "hours_done"
    /\ UNCHANGED <<cliVars, dashVars, time_zone_abbr, module_variant, start_time, end_time,
                   convVars, gapsVars, orchVars>>

NextHours == GenerateHours

SpecHours == InitHours /\ [][NextHours]_vars

(***************************************************************************)
(* Gap finder calls.                                                       *)
(***************************************************************************)
\* MM/DD/YY dates: two consecutive days either side of a year boundary
Dates == {"12/31/24", "01/01/25"}

\* booked intervals: two of one morning and afternoon, one off the hour
\* boundary inside a day, one off the hour boundary that crosses midnight UTC
Intervals == {<<"09:00", "11:00">>, <<"14:00", "15:00">>, <<"09:30", "11:15">>,
              <<"22:30", "01:15">>}

\* area labels of the schedule and areas a user selects
Labels == {"K3Y/0", "K3Y/10"}
Areas == {"K3Y/0", "K3Y/1"}

Bookings == {<<d, iv[1], iv[2], l>> : d \in Dates, iv \in Intervals, l \in Labels}

BookingLists == UNION {[1..n -> Bookings] : n \in 0..MaxBookings}

\* required UTC ranges: a daytime window and one that wraps past midnight
RequiredRanges == {<<"08:00", "16:00">>, <<"22:00", "02:00">>}

GapZones == {"EST", "CHST", "XYZ"}

InitGaps ==
    /\ pc = "gaps_call"
    /\ data \in BookingLists
    /\ required_ranges \in {<<r>> : r \in RequiredRanges}
    /\ time_zone_abbr \in GapZones
    /\ area \in Areas
    /\ module_variant \in {"shifts", "slots"}
    /\ daily_hours = <<>> /\ open_slots = <<>> /\ outcome = NotCalled
    /\ IdleConverter /\ IdleHours /\ IdleOrchestrator /\ IdleCli /\ IdleDashboard

FindGaps ==
    /\ pc = "gaps_call"
    /\ daily_hours' = BookedHours(data, area)
    /\ open_slots' = OpenSlots(daily_hours')
    /\ outcome' = find_gaps(data, required_ranges, time_zone_abbr, area, module_variant)
    /\ pc' = "gaps_done"
    /\ UNCHANGED <<cliVars, dashVars, time_zone_abbr, module_variant, data, required_ranges, area,
                   convVars, hoursVars, orchVars>>

NextGaps == FindGaps

SpecGaps == InitGaps /\ [][NextGaps]_vars

(***************************************************************************)
(* Orchestrator calls: get_open_slots and get_open_slots_new of            *)
(* k3y_open_time_shifts.py, get_open_slots of k3y_open_time_slots.py.      *)
(* Each runs: fetch, then convert the local window to UTC, then find_gaps. *)
(***************************************************************************)
\* what the schedule source may hold
Schedules ==
    {<<>>,
     <<<<"01/05/25", "09:00", "11:00", "K3Y/0">>, <<"01/05/25", "14:00", "15:00", "K3Y/0">>>>,
     <<<<"12/31/24", "22:30", "01:15", "K3Y/10">>, <<"1/10/25", "09:00", "11:00", "K3Y/0">>>>}

\* the local windows of the two load_settings defaults
LocalWindows == {<<"08:00", "22:00">>, <<"07:00 AM", "10:00 PM">>}

EntryPoints ==
    {<<"shifts", "get_open_slots">>, <<"shifts", "get_open_slots_new">>,
     <<"slots", "get_open_slots">>}

Init ==
    /\ pc = "fetch"
    /\ \E ep \in EntryPoints : module_variant = ep[1] /\ entry_point = ep[2]
    /\ area \in Areas
    /\ time_zone_abbr \in GapZones
    /\ \E w \in LocalWindows : local_day_start = w[1] /\ local_day_end = w[2]
    /\ schedule \in Schedules
    /\ response = NotCalled /\ update_info = NotCalled /\ fetches = 0
    /\ data = <<>> /\ required_ranges = <<>>
    /\ daily_hours = <<>> /\ open_slots = <<>> /\ outcome = NotCalled
    /\ IdleConverter /\ IdleHours /\ IdleCli /\ IdleDashboard

\* the fetch returned `rows` (and `info`), or raised out of the orchestrator
AfterFetch(resp, fetched, rows, info) ==
    /\ response' = resp
    /\ fetches' = fetches + 1
    /\ IF fetched.kind = "raise"
       THEN /\ outcome' = fetched
            /\ pc' = "raised"
            /\ UNCHANGED <<data, update_info>>
       ELSE /\ data' = rows
            /\ update_info' = info
            /\ pc' = "convert"
            /\ UNCHANGED outcome
    /\ UNCHANGED <<cliVars, dashVars, time_zone_abbr, module_variant, required_ranges, area, daily_hours,
                   open_slots, entry_point, local_day_start, local_day_end, schedule,
                   convVars, hoursVars>>

\* data, update_info = fetch_k3y_data(url, area)
FetchData ==
    /\ pc = "fetch" /\ module_variant = "shifts" /\ entry_point = "get_open_slots"
    /\ \E resp \in HtmlResponses(schedule) :
          LET fetched == fetch_k3y_data(resp, area)
          IN  AfterFetch(resp, fetched, fetched.value[1], fetched.value[2])

\* data, update_info = fetch_k3y_data_new(area)
FetchDataNew ==
    /\ pc = "fetch" /\ module_variant = "shifts" /\ entry_point = "get_open_slots_new"
    /\ \E resp \in JsonResponses(schedule) :
          LET fetched == fetch_k3y_data_new(resp, area)
          IN  AfterFetch(resp, fetched, fetched.value[1], fetched.value[2])

\* data = fetch_k3y_data(url, area), k3y_open_time_slots.py
FetchDataSlots ==
    /\ pc = "fetch" /\ module_variant = "slots"
    /\ \E resp \in HtmlResponses(schedule) :
          LET fetched == fetch_k3y_data_slots(resp, area)
          IN  AfterFetch(resp, fetched, fetched.value, ReturnNone)

\* required_ranges = [(convert_to_utc(...), convert_to_utc(...))]
ConvertRange ==
    /\ pc = "convert"
    /\ LET r == RequiredRangesOf(local_day_start, local_day_end, time_zone_abbr)
       IN  IF r.kind = "raise"
           THEN /\ outcome' = r /\ pc' = "raised" /\ UNCHANGED required_ranges
           ELSE /\ required_ranges' = r.value /\ pc' = "find_gaps" /\ UNCHANGED outcome
    /\ UNCHANGED <<cliVars, dashVars, time_zone_abbr, module_variant, data, area, daily_hours, open_slots,
                   convVars, hoursVars, orchVars>>

\* gaps = find_gaps(data, required_ranges, time_zone_abbr, area); return
CallFindGaps ==
    /\ pc = "find_gaps"
    /\ daily_hours' = BookedHours(data, area)
    /\ open_slots' = OpenSlots(daily_hours')
    /\ LET g == find_gaps(data, required_ranges, time_zone_abbr, area, module_variant)
       IN  IF g.kind = "raise"
           THEN /\ outcome' = g /\ pc' = "raised"
           ELSE /\ outcome' = (IF module_variant = "slots" THEN g
                                ELSE Return(<<g.value, update_info>>))
                /\ pc' = "returned"
    /\ UNCHANGED <<cliVars, dashVars, time_zone_abbr, module_variant, data, required_ranges, area,
                   convVars, hoursVars, orchVars>>

Next == FetchData \/ FetchDataNew \/ FetchDataSlots \/ ConvertRange \/ CallFindGaps

Spec == Init /\ [][Next]_vars

(***************************************************************************)
(* Command-line run: parse_args, load_settings, update_settings_from_args, *)
(* get_open_slots, then the printing of the table.                         *)
(***************************************************************************)
\* the dict load_settings builds when settings.json is missing
DefaultSettings(variant) ==
    IF variant = "slots" THEN Settings("EST", "K3Y/0", "08:00", "22:00")
    ELSE Settings("EST", "K3Y/4", "07:00 AM", "10:00 PM")

load_settings(variant, file) ==
    IF file.present THEN file.content ELSE DefaultSettings(variant)

\* a flag that was given replaces the loaded value
update_settings_from_args(st, a) ==
    Settings(IF a.time_zone # "" THEN a.time_zone ELSE st.TIME_ZONE_ABBR,
             IF a.area # "" THEN a.area ELSE st.K3Y_AREA,
             IF a.start # "" THEN a.start ELSE st.LOCAL_DAY_START,
             IF a.end # "" THEN a.end ELSE st.LOCAL_DAY_END)

\* no file, a hand-written file, a file saved by the dashboard
SettingsFiles ==
    {NoFile, FileOf(Settings("CST", "K3Y/0", "09:00", "17:00")),
     FileOf(Settings("EST", "K3Y/0", "08:00 AM", "10:00 PM"))}

\* no flags; --area --start --end; --time-zone
CommandLines ==
    {NoArgs,
     [time_zone |-> "", area |-> "K3Y/0", start |-> "08:00", end |-> "22:00"],
     [time_zone |-> "XYZ", area |-> "", start |-> "", end |-> ""]}

\* print(f"\n{'Date'}\t {'Open Slot (UTC)'}\t  {'Open Slot ({})'.format(tz)}")
TableHeader(tz) == "\nDate\t Open Slot (UTC)\t  Open Slot (" \o tz \o ")"

NoOpenSlotsMessage == "\nNo open slots found for the specified time range."

\* the loop over gaps: an empty line between two dates, one line per gap;
\* `previous` is <<>> for None
RECURSIVE TableRows(_, _)
TableRows(gs, previous) ==
    IF gs = <<>> THEN <<>>
    ELSE LET g == Head(gs)
         IN  (IF previous # <<>> /\ previous # <<g.Date>> THEN <<"">> ELSE <<>>)
                \o <<g.Date \o "\t " \o g.OpenSlotUTC \o "\t  " \o g.OpenSlotLocal>>
                \o TableRows(Tail(gs), <<g.Date>>)

InitCli ==
    /\ pc = "cli_start"
    /\ module_variant \in {"shifts", "slots"}
    /\ entry_point = "get_open_slots"
    /\ settings_json \in SettingsFiles
    /\ args \in CommandLines
    /\ schedule \in Schedules
    /\ settings = NoSettings /\ stdout = <<>>
    /\ time_zone_abbr = "" /\ area = "" /\ local_day_start = "" /\ local_day_end = ""
    /\ response = NotCalled /\ update_info = NotCalled /\ fetches = 0
    /\ data = <<>> /\ required_ranges = <<>>
    /\ daily_hours = <<>> /\ open_slots = <<>> /\ outcome = NotCalled
    /\ IdleConverter /\ IdleHours /\ IdleDashboard

\* args = parse_args(); settings = load_settings();
\* settings = update_settings_from_args(settings, args)
LoadSettings ==
    /\ pc = "cli_start"
    /\ settings' = update_settings_from_args(load_settings(module_variant, settings_json), args)
    /\ pc' = "cli_call"
    /\ UNCHANGED <<time_zone_abbr, module_variant, convVars, hoursVars, gapsVars, orchVars,
                   settings_json, args, stdout, dashVars>>

\* get_open_slots(settings['K3Y_AREA'], settings['TIME_ZONE_ABBR'],
\*                settings['LOCAL_DAY_START'], settings['LOCAL_DAY_END'])
CallGetOpenSlots ==
    /\ pc = "cli_call"
    /\ area' = settings.K3Y_AREA
    /\ time_zone_abbr' = settings.TIME_ZONE_ABBR
    /\ local_day_start' = settings.LOCAL_DAY_START
    /\ local_day_end' = settings.LOCAL_DAY_END
    /\ pc' = "fetch"
    /\ UNCHANGED <<module_variant, convVars, hoursVars, data, required_ranges, daily_hours,
                   open_slots, outcome, entry_point, schedule, response, update_info,
                   fetches, cliVars, dashVars>>

\* the print stage: the update line (k3y_open_time_shifts.py only), then the
\* table or the no-open-slots message, then print('\n')
PrintResults ==
    /\ pc = "returned"
    /\ LET gs == IF module_variant = "slots" THEN outcome.value ELSE outcome.value[1]
           info == IF module_variant = "slots" THEN ReturnNone ELSE outcome.value[2]
           key == "Open Slot (" \o settings.TIME_ZONE_ABBR \o ")"
           update_line ==
               IF info.kind = "return" /\ info.value # ""
               THEN <<"\nSKCC OP Schedule last update: " \o info.value
                        \o " \n\nOpen Slots for area " \o settings.K3Y_AREA>>
               ELSE <<>>
       IN  IF gs # <<>> /\ \E i \in 1..Len(gs) : gs[i].gap_label # key
           THEN /\ outcome' = Raise("KeyError: " \o key)
                /\ stdout' = update_line \o <<TableHeader(settings.TIME_ZONE_ABBR)>>
                /\ pc' = "raised"
           ELSE /\ stdout' = update_line
                                \o (IF gs # <<>>
                                    THEN <<TableHeader(settings.TIME_ZONE_ABBR)>>
                                            \o TableRows(gs, <<>>)
                                    ELSE <<NoOpenSlotsMessage>>)
                                \o <<"\n">>
                /\ pc' = "printed"
                /\ UNCHANGED outcome
    /\ UNCHANGED <<time_zone_abbr, module_variant, convVars, hoursVars, data,
                   required_ranges, area, daily_hours, open_slots, orchVars,
                   settings_json, args, settings, dashVars>>

NextCli ==
    \/ LoadSettings \/ CallGetOpenSlots \/ FetchData \/ FetchDataSlots
    \/ ConvertRange \/ CallFindGaps \/ PrintResults

SpecCli == InitCli /\ [][NextCli]_vars

(***************************************************************************)
(* Dashboard (src/dashboard.py).  Every interaction reruns the script from *)
(* the top: the settings are initialised, the sidebar is rendered (Save    *)
(* Settings is handled there), then the Refresh button, the cached call,   *)
(* the update line and the results table.  The script imports              *)
(* get_open_slots from k3y_open_time_slots.                                *)
(***************************************************************************)
\* the options of the sidebar's select boxes
time_zone_options == ZoneKeys
k3y_area_options == [i \in 1..10 |-> "K3Y/" \o CharAt(Digits, i)]
hour_options == [h \in 1..24 |-> strftime_IMp((h - 1) * HourMinutes)]

\* datetime.strptime(text, "%I:%M %p") of an entry of hour_options
strptime_IMp(text) ==
    LET h == IntOf(SubSeq(text, 1, 2))
        m == IntOf(SubSeq(text, 4, 5))
    IN  ((h % 12) + (IF SubSeq(text, 7, 8) = "PM" THEN 12 ELSE 0)) * HourMinutes + m

\* index= of the Day Start and Day End boxes is hour_options.index(...) when
\* the setting is listed and the string "6:00 AM" / "12:00 PM" otherwise
HourIndexIsInt(st) ==
    /\ st.LOCAL_DAY_START \in Range(hour_options)
    /\ st.LOCAL_DAY_END \in Range(hour_options)

\* what the four boxes show at their first rendering
FirstShown(st) ==
    [tz |-> IF st.TIME_ZONE_ABBR \in Range(time_zone_options)
            THEN st.TIME_ZONE_ABBR ELSE time_zone_options[1],
     area |-> IF st.K3Y_AREA \in Range(k3y_area_options)
              THEN st.K3Y_AREA ELSE k3y_area_options[1],
     start |-> st.LOCAL_DAY_START,
     end |-> st.LOCAL_DAY_END]

\* selections a user makes: two windows in one zone and area, another zone
\* and area
DashSelections ==
    {[tz |-> "EST", area |-> "K3Y/0", start |-> "08:00 AM", end |-> "10:00 AM"],
     [tz |-> "EST", area |-> "K3Y/0", start |-> "04:00 AM", end |-> "08:00 AM"],
     [tz |-> "CHST", area |-> "K3Y/1", start |-> "08:00 AM", end |-> "10:00 AM"]}

\* no settings.json, or one the dashboard saved
DashSettingsFiles == {NoFile, FileOf(Settings("EST", "K3Y/0", "08:00 AM", "10:00 AM"))}

\* the schedule while the session lasts: two bookings of K3Y/0, none of K3Y/1
DashSchedules ==
    {<<<<"01/05/25", "09:00", "11:00", "K3Y/0">>, <<"01/05/25", "14:00", "15:00", "K3Y/0">>>>}

\* answers of the schedule source to the dashboard's fetch
DashResponses(rows) ==
    {Failure("timeout"), HtmlPage(TRUE, "absent", TRUE, rows),
     HtmlPage(TRUE, "absent", FALSE, rows)}

\* seconds between two script runs
TimeSteps == {200, 600}

\* @st.cache_data(ttl=600)
TTL == 600

\* a cache key that leaves the local window out
CacheKey_zone_and_area(timezone, a, start_local_str, end_local_str) == <<timezone, a>>

\* st.cache_data keys an entry on the arguments of the call
CacheKey(timezone, a, start_local_str, end_local_str) ==
    <<timezone, a, start_local_str, end_local_str>>

\* get_open_slots(area, time_zone_abbr, local_day_start, local_day_end) of
\* k3y_open_time_slots.py: fetch, convert, find_gaps; returns the gap list
get_open_slots(resp, a, tz, start, end) ==
    LET fetched == fetch_k3y_data_slots(resp, a)
    IN  IF fetched.kind = "raise" THEN fetched
        ELSE LET r == RequiredRangesOf(start, end, tz)
             IN  IF r.kind = "raise" THEN r
                 ELSE find_gaps(fetched.value, r.value, tz, a, "slots")

\* the body of get_cached_open_slots: what get_open_slots returned (a list),
\* or the pair ([], None) after st.error when it raised
get_cached_open_slots(resp, timezone, a, start_local_str, end_local_str) ==
    LET r == get_open_slots(resp, a, timezone, start_local_str, end_local_str)
    IN  IF r.kind = "raise"
        THEN [kind |-> "pair", value |-> <<>>, info |-> ReturnNone, error |-> r.value]
        ELSE [kind |-> "list", value |-> r.value, info |-> ReturnNone, error |-> ""]

NoGapsMessage == "No gaps found for selected time range!"

ClearEvent(now) == [op |-> "clear", args |-> <<>>, at |-> now, value |-> NotCalled]

\* what the dashboard never changes
calleeVars ==
    <<time_zone_abbr, module_variant, convVars, hoursVars, data, required_ranges, area,
      daily_hours, open_slots, entry_point, local_day_start, local_day_end, schedule,
      args, settings, stdout>>

InitDash ==
    /\ pc = "browser"
    /\ module_variant = "slots" /\ entry_point = "get_open_slots"
    /\ settings_json \in DashSettingsFiles
    /\ schedule \in DashSchedules
    /\ args = NoArgs /\ settings = NoSettings /\ stdout = <<>>
    /\ time_zone_abbr = "" /\ area = "" /\ local_day_start = "" /\ local_day_end = ""
    /\ response = NotCalled /\ update_info = NotCalled /\ fetches = 0
    /\ data = <<>> /\ required_ranges = <<>>
    /\ daily_hours = <<>> /\ open_slots = <<>> /\ outcome = NotCalled
    /\ IdleConverter /\ IdleHours /\ IdleDashboard

\* the user opens the page, changes a select box or clicks a button: the
\* script reruns.  Boxes and buttons exist once the sidebar has been rendered.
Interact ==
    /\ pc \in {"browser", "page_done", "page_raised"}
    /\ runs < MaxRuns
    /\ \E dt \in TimeSteps : clock' = clock + dt
    /\ IF selection = NoSelection
       THEN clicked' = "none" /\ UNCHANGED selection
       ELSE \/ \E sel \in DashSelections : selection' = sel /\ clicked' = "none"
            \/ clicked' \in {"save", "refresh"} /\ UNCHANGED selection
    /\ runs' = runs + 1
    /\ page' = <<>> /\ cached_result' = NotCalled /\ gaps' = NotCalled
    /\ update_info' = NotCalled /\ outcome' = NotCalled
    /\ pc' = "script_start"
    /\ UNCHANGED <<calleeVars, response, fetches, settings_json, session_state, cache,
                   cache_log>>

\* initialize_settings(); the editor key is created on the first run
ScriptStart ==
    /\ pc = "script_start"
    /\ session_state' =
          IF session_state.has_settings THEN session_state
          ELSE [has_settings |-> TRUE, settings |-> load_settings("slots", settings_json),
                editor_key |-> 0]
    /\ pc' = "sidebar"
    /\ UNCHANGED <<calleeVars, outcome, response, update_info, fetches, settings_json,
                   selection, clicked, clock, cache, cache_log, cached_result, gaps, page,
                   runs>>

\* render_settings_sidebar(): st.selectbox rejects an index that is a str;
\* Save Settings stores the selection, tries to write the file (the write may
\* fail) and clears the cache
RenderSidebar ==
    /\ pc = "sidebar"
    /\ IF ~HourIndexIsInt(session_state.settings)
       THEN /\ outcome' = Raise("StreamlitAPIException: Selectbox Value has invalid type: str")
            /\ pc' = "page_raised"
            /\ UNCHANGED <<selection, session_state, settings_json, cache, cache_log, page>>
       ELSE LET shown == IF selection = NoSelection
                         THEN FirstShown(session_state.settings) ELSE selection
                settings_to_save == Settings(shown.tz, shown.area, shown.start, shown.end)
            IN  /\ selection' = shown
                /\ IF clicked = "save"
                   THEN /\ session_state' = [session_state EXCEPT !.settings = settings_to_save]
                        /\ \E file_saved \in BOOLEAN :
                              /\ settings_json' = IF file_saved THEN FileOf(settings_to_save)
                                                  ELSE settings_json
                              /\ page' = Append(page,
                                            IF file_saved
                                            THEN "Settings saved successfully to file and session!"
                                            ELSE "Settings saved for this session!")
                        /\ cache' = {}
                        /\ cache_log' = Append(cache_log, ClearEvent(clock))
                   ELSE UNCHANGED <<session_state, settings_json, cache, cache_log, page>>
                /\ pc' = "refresh"
                /\ UNCHANGED outcome
    /\ UNCHANGED <<calleeVars, response, update_info, fetches, clicked, clock,
                   cached_result, gaps, runs>>

\* the Refresh button: clear the cache, show and remove the message after
\* time.sleep(1), bump the editor key
RefreshButton ==
    /\ pc = "refresh"
    /\ IF clicked = "refresh"
       THEN /\ cache' = {}
            /\ cache_log' = Append(cache_log, ClearEvent(clock))
            /\ clock' = clock + 1
            /\ session_state' = [session_state EXCEPT !.editor_key = @ + 1]
       ELSE UNCHANGED <<cache, cache_log, clock, session_state>>
    /\ pc' = "cached_call"
    /\ UNCHANGED <<calleeVars, outcome, response, update_info, fetches, settings_json,
                   selection, clicked, cached_result, gaps, page, runs>>

\* get_cached_open_slots(timezone, area, start, end) under st.cache_data: an
\* entry of the same key younger than the TTL is returned, else the body runs
\* and its result is stored
CachedCall ==
    /\ pc = "cached_call"
    /\ LET start24 == strftime_HM(strptime_IMp(selection.start))
           end24 == strftime_HM(strptime_IMp(selection.end))
           key == CacheKey(selection.tz, selection.area, start24, end24)
           hits == {e \in cache : e.key = key /\ clock - e.stored_at < TTL}
       IN  IF hits # {}
           THEN /\ cached_result' = (CHOOSE e \in hits : TRUE).value
                /\ UNCHANGED <<cache, cache_log, response, fetches>>
           ELSE \E resp \in DashResponses(schedule) :
                   /\ cached_result' = get_cached_open_slots(resp, selection.tz,
                                              selection.area, start24, end24)
                   /\ cache' = {e \in cache : e.key # key}
                                  \cup {[key |-> key, value |-> cached_result',
                                         stored_at |-> clock]}
                   /\ cache_log' = Append(cache_log,
                                       [op |-> "call",
                                        args |-> <<selection.tz, selection.area,
                                                   start24, end24>>,
                                        at |-> clock, value |-> cached_result'])
                   /\ response' = resp
                   /\ fetches' = fetches + 1
    /\ page' = IF cached_result'.error # ""
               THEN Append(page, "Error fetching data: " \o cached_result'.error)
               ELSE page
    /\ pc' = "unpack"
    /\ UNCHANGED <<calleeVars, outcome, update_info, settings_json, session_state,
                   selection, clicked, clock, gaps, runs>>

\* gaps, update_info = get_cached_open_slots(...): the pair unpacks; a list
\* unpacks only when it holds exactly two gap dicts
UnpackResult ==
    /\ pc = "unpack"
    /\ IF cached_result.kind = "pair"
       THEN /\ gaps' = [kind |-> "list", value |-> cached_result.value]
            /\ update_info' = cached_result.info
            /\ pc' = "update_display"
            /\ UNCHANGED outcome
       ELSE IF Len(cached_result.value) = 2
       THEN /\ gaps' = [kind |-> "dict", value |-> cached_result.value[1]]
            /\ update_info' = [kind |-> "dict", value |-> cached_result.value[2]]
            /\ pc' = "update_display"
            /\ UNCHANGED outcome
       ELSE /\ outcome' = Raise(IF Len(cached_result.value) < 2
                                THEN "ValueError: not enough values to unpack (expected 2)"
                                ELSE "ValueError: too many values to unpack (expected 2)")
            /\ pc' = "page_raised"
            /\ UNCHANGED <<gaps, update_info>>
    /\ UNCHANGED <<calleeVars, response, fetches, settings_json, session_state, selection,
                   clicked, clock, cache, cache_log, cached_result, page, runs>>

\* `if update_info:` update_info.replace(...): None is skipped, a gap dict has
\* no replace (a str never arrives: this get_open_slots returns no update text)
ShowUpdateInfo ==
    /\ pc = "update_display"
    /\ IF update_info.kind = "dict"
       THEN /\ outcome' = Raise("AttributeError: 'dict' object has no attribute 'replace'")
            /\ pc' = "page_raised"
       ELSE /\ update_info.kind = "none"
            /\ pc' = "render"
            /\ UNCHANGED outcome
    /\ UNCHANGED <<calleeVars, response, update_info, fetches, settings_json, session_state,
                   selection, clicked, clock, cache, cache_log, cached_result, gaps, page,
                   runs>>

\* edited_df, gaps_data, local_col = render_results_table(gaps, ...): with no
\* gaps the function shows its message and returns the pair ([], []), which
\* three targets cannot unpack; iterating a gap dict yields its str keys
RenderResults ==
    /\ pc = "render"
    /\ IF gaps.kind = "list" /\ gaps.value = <<>>
       THEN /\ page' = Append(page, NoGapsMessage)
            /\ outcome' = Raise("ValueError: not enough values to unpack (expected 3, got 2)")
       ELSE /\ outcome' = Raise("TypeError: string indices must be integers")
            /\ UNCHANGED page
    /\ pc' = "page_raised"
    /\ UNCHANGED <<calleeVars, response, update_info, fetches, settings_json, session_state,
                   selection, clicked, clock, cache, cache_log, cached_result, gaps, runs>>

NextDash ==
    \/ Interact \/ ScriptStart \/ RenderSidebar \/ RefreshButton \/ CachedCall
    \/ UnpackResult \/ ShowUpdateInfo \/ RenderResults

SpecDash == InitDash /\ [][NextDash]_vars

(***************************************************************************)
(* Vocabulary of the properties.                                           *)
(***************************************************************************)
\* the 24 hour labels 00:00 .. 23:00
HourLabels == {Fmt2(h) \o ":00" : h \in 0..23}

\* the hours recorded for a date in a date -> hours dict (empty when absent)
HoursOn(dict, date) == UNION {dict[i].hours : i \in {j \in 1..Len(dict) : dict[j].date = date}}

DictDates(dict) == {dict[i].date : i \in 1..Len(dict)}

\* the booking date a gap record is about, and its UTC start hour
BookingDateOf(g) == IF module_variant = "slots" THEN SubSeq(g.Date, 3, Len(g.Date)) ELSE g.Date
UtcHourOf(g) == IntOf(SubSeq(g.OpenSlotUTC, 1, 2))

\* hour label plus n hours, on the 24-hour clock, and its 12-hour AM/PM form
Clock24(h) == Fmt2(h % 24) \o ":00"
Clock12(h) ==
    Fmt2(IF h % 12 = 0 THEN 12 ELSE h % 12) \o ":00 " \o (IF h % 24 < 12 THEN "AM" ELSE "PM")

\* the fixed table of the specification
TableOffset(z) ==
    CASE z = "EST" -> -5 [] z = "CST" -> -6 [] z = "MST" -> -7 [] z = "PST" -> -8
      [] z = "AKST" -> -9 [] z = "HAST" -> -10 [] z = "SST" -> -11 [] z = "CHST" -> 10
TableZones == {"EST", "CST", "MST", "PST", "AKST", "HAST", "SST", "CHST"}

\* month/day/year of a date string as one comparable number
CalendarOf(date) ==
    LET slashes == Positions(date, "/")
        p1 == CHOOSE i \in slashes : \A j \in slashes : i <= j
        p2 == CHOOSE i \in slashes : \A j \in slashes : j <= i
    IN  IntOf(SubSeq(date, p2 + 1, Len(date))) * 10000
          + IntOf(SubSeq(date, 1, p1 - 1)) * 100
          + IntOf(SubSeq(date, p1 + 1, p2 - 1))

GapsDone == pc = "gaps_done"
GapsReturned == pc = "gaps_done" /\ outcome.kind = "return"

(***************************************************************************)
(* C1: in find_gaps, for every date with a booking matching the area, the  *)
(* booked-hour set and the open-slot set are disjoint and their union is   *)
(* exactly the 24 hour labels 00:00 .. 23:00.                              *)
(***************************************************************************)
C1_BookedAndOpenPartitionTheDay ==
    GapsDone =>
        \A i \in 1..Len(daily_hours) :
            /\ open_slots[i].date = daily_hours[i].date
            /\ daily_hours[i].hours \cap open_slots[i].hours = {}
            /\ daily_hours[i].hours \cup open_slots[i].hours = HourLabels

(***************************************************************************)
(* C2: for a single required UTC range, find_gaps emits exactly one record *)
(* for every (date, hour) where the date has a matching booking, the hour  *)
(* is an hour of the range and no matching booking of the date covers it,  *)
(* and no other record.                                                    *)
(***************************************************************************)
C2_Expected ==
    {<<d, h>> : d \in DictDates(daily_hours), h \in Range(generate_hours(required_ranges[1][1], required_ranges[1][2]))}
        \ {<<d, h>> \in DictDates(daily_hours) \X HourLabels : h \in HoursOn(daily_hours, d)}

\* C2: the emitted (date, hour) pairs are exactly the uncovered hours of the
\* required range on the dates with a matching booking, one record for each
C2_OneRecordPerUncoveredHour ==
    (GapsReturned /\ Len(required_ranges) = 1) =>
        /\ {<<BookingDateOf(outcome.value[i]), Clock24(UtcHourOf(outcome.value[i]))>> :
                i \in 1..Len(outcome.value)} = C2_Expected
        /\ Len(outcome.value) = Cardinality(C2_Expected)

(***************************************************************************)
(* C3: every record for UTC hour h under zone tz has UTC label             *)
(* "h - (h+1) UTC" and local label h, h+1 shifted by the zone's offset     *)
(* (mod 24) in 12-hour AM/PM form; bookings 09:00-11:00 and 14:00-15:00 of *)
(* K3Y/0 on one date, range 08:00-16:00, area K3Y/0, zone EST give exactly *)
(* the records of UTC hours 08, 11, 12, 13, 15, the first with local label *)
(* 03:00 AM - 04:00 AM.                                                    *)
(***************************************************************************)
C3_Scenario ==
    /\ Len(data) = 2
    /\ data[1][1] = data[2][1]
    /\ <<data[1][2], data[1][3], data[1][4]>> = <<"09:00", "11:00", "K3Y/0">>
    /\ <<data[2][2], data[2][3], data[2][4]>> = <<"14:00", "15:00", "K3Y/0">>
    /\ required_ranges = <<<<"08:00", "16:00">>>>
    /\ area = "K3Y/0"
    /\ time_zone_abbr = "EST"

C3_Labels(g, h, z) ==
    /\ g.OpenSlotUTC = Clock24(h) \o " - " \o Clock24(h + 1) \o " UTC"
    /\ g.OpenSlotLocal = Clock12(h + TableOffset(z) + 24) \o " - "
                            \o Clock12(h + 1 + TableOffset(z) + 24)

\* C3: every record carries the UTC label of its hour and the local label
\* shifted by the zone's offset; the end-to-end scenario gives the five records
C3_RecordLabels ==
    GapsReturned =>
        /\ \A i \in 1..Len(outcome.value) :
              \E h \in 0..23 : C3_Labels(outcome.value[i], h, time_zone_abbr)
        /\ C3_Scenario =>
              /\ [i \in 1..Len(outcome.value) |-> UtcHourOf(outcome.value[i])] = <<8, 11, 12, 13, 15>>
              /\ \A i \in 1..Len(outcome.value) : BookingDateOf(outcome.value[i]) = data[1][1]
              /\ outcome.value[1].OpenSlotLocal = "03:00 AM - 04:00 AM"

\* C3 witness: the end-to-end scenario has returned its five records
C3_Witness ==
    /\ GapsReturned /\ C3_Scenario
    /\ Len(outcome.value) = 5
    /\ outcome.value[5].OpenSlotUTC = "15:00 - 16:00 UTC"
    /\ outcome.value[5].OpenSlotLocal = "10:00 AM - 11:00 AM"

(***************************************************************************)
(* C4: a booking contributes hours to its date's booked-hour set if and    *)
(* only if its area_label equals the selected area; a label that merely    *)
(* contains the area as a substring, or another area's, never contributes. *)
(***************************************************************************)
C4_ExactHours(date) ==
    UNION {Range(generate_hours(data[i][2], data[i][3])) :
              i \in {j \in 1..Len(data) : data[j][1] = date /\ data[j][4] = area}}

\* C4: the booked-hour sets are those of the bookings whose label equals the
\* selected area, and of no other booking
C4_OnlyExactAreaContributes ==
    GapsDone =>
        /\ DictDates(daily_hours) = {data[i][1] : i \in {j \in 1..Len(data) : data[j][4] = area}}
        /\ \A d \in DictDates(daily_hours) : HoursOn(daily_hours, d) = C4_ExactHours(d)

(***************************************************************************)
(* C5: the returned list is sorted ascending by calendar date, then by UTC *)
(* start hour, whatever the lengths or zero-padding of the date strings.   *)
(***************************************************************************)
C5_SortedByCalendarDateThenHour ==
    GapsReturned =>
        \A i, j \in 1..Len(outcome.value) :
            i < j =>
                LET ci == CalendarOf(BookingDateOf(outcome.value[i]))
                    cj == CalendarOf(BookingDateOf(outcome.value[j]))
                IN  \/ ci < cj
                    \/ ci = cj /\ UtcHourOf(outcome.value[i]) <= UtcHourOf(outcome.value[j])

(***************************************************************************)
(* C6: for every zone of the table and every whole hour h,                 *)
(* convert_to_local(convert_to_utc(h, tz), tz) is the same hour of day as  *)
(* h, with the AM/PM half matching h.                                      *)
(***************************************************************************)
C6_RoundTrip ==
    (pc = "round_trip_done" /\ time_str \in HourLabels /\ time_zone_abbr \in TableZones) =>
        /\ local_result.kind = "return"
        /\ local_result.value = Clock12(IntOf(SubSeq(time_str, 1, 2)))

\* C6 witness: 23:00 CHST went to 13:00 UTC and came back as 11:00 PM
C6_Witness ==
    /\ pc = "round_trip_done" /\ time_str = "23:00" /\ time_zone_abbr = "CHST"
    /\ utc_result = Return("13:00")
    /\ local_result = Return("11:00 PM")

(***************************************************************************)
(* C7: generate_hours(start, end) returns, in order, one HH:00 label for   *)
(* every full hour from the hour-floor of start that is strictly less than *)
(* end, end < start wrapping to the next day, also when start is not on an *)
(* hour boundary.                                                          *)
(***************************************************************************)
\* number of k >= 0 with from + 60 k < to
C7_Steps(from, to) == IF to <= from THEN 0 ELSE (to - from + 59) \div 60

C7_End ==
    LET s == strptime_HM(start_time)
        e == strptime_HM(end_time)
    IN  IF e < s THEN e + 24 * 60 ELSE e

C7_Floor == strptime_HM(start_time) - (strptime_HM(start_time) % 60)

\* C7 as stated: one label for every full hour from the hour-floor of start
\* that is strictly less than end
C7_EveryFullHourFromFloor ==
    pc = "hours_done" =>
        hours = [i \in 1..C7_Steps(C7_Floor, C7_End) |-> Clock24((C7_Floor \div 60) + i - 1)]

\* C7 amended: one label, the hour of start + k hours, for every k >= 0 with
\* start + k hours strictly less than end; the stated rule when start is on
\* an hour boundary
C7_HourOfEachStepFromStart ==
    pc = "hours_done" =>
        /\ hours = [i \in 1..C7_Steps(strptime_HM(start_time), C7_End) |->
                        Clock24((C7_Floor \div 60) + i - 1)]
        /\ (start_time = "22:00" /\ end_time = "02:00")
                => hours = <<"22:00", "23:00", "00:00", "01:00">>
        /\ (start_time = "07:00" /\ end_time = "09:30")
                => hours = <<"07:00", "08:00", "09:00">>
        /\ strptime_HM(start_time) % 60 = 0
                => hours = [i \in 1..C7_Steps(C7_Floor, C7_End) |->
                               Clock24((C7_Floor \div 60) + i - 1)]

\* C7 witness: a start off the hour boundary, the hour holding end left out
C7_Witness ==
    /\ pc = "hours_done" /\ start_time = "07:30" /\ end_time = "09:15"
    /\ hours = <<"07:00", "08:00">>

(***************************************************************************)
(* C8: convert_to_utc and convert_to_local called with an abbreviation     *)
(* outside the 8 table keys always fail with an error naming all 8 valid   *)
(* abbreviations; they return no value, not even convert_to_local's None.  *)
(***************************************************************************)
C8_NamesAllZones(r) == r.kind = "raise" /\ \A z \in TableZones : Contains(z, r.value)

\* C8: with an abbreviation outside the table each converter raises the error
\* naming the 8 valid abbreviations
C8_InvalidZoneRejected ==
    time_zone_abbr \notin TableZones =>
        /\ pc = "utc_done" => C8_NamesAllZones(utc_result)
        /\ pc = "local_done" => C8_NamesAllZones(local_result)

\* C8 witness: convert_to_local raised on an invalid zone although the time
\* string does not parse
C8_Witness ==
    /\ pc = "local_done" /\ time_zone_abbr = "XYZ" /\ time_str = "07:00 AM"
    /\ local_result.kind = "raise"

(***************************************************************************)
(* C9: find_gaps called with a tz_abbr outside the table fails with the    *)
(* converter's invalid-time-zone error for every bookings list and every   *)
(* required range, and returns no gap list.                                *)
(***************************************************************************)
C9_InvalidZoneAlwaysFails ==
    (GapsDone /\ time_zone_abbr \notin TableZones) =>
        /\ outcome.kind = "raise"
        /\ \A z \in TableZones : Contains(z, outcome.value)

(***************************************************************************)
(* C10: a failure of the schedule fetch (network error, timeout, non-2xx   *)
(* status, unexpected document shape) never raises out of get_open_slots / *)
(* get_open_slots_new: the call returns, with gaps empty.                  *)
(***************************************************************************)
C10_FetchFailed ==
    /\ fetches > 0
    /\ \/ response.kind \in {"timeout", "connection_error", "http_error"}
       \/ response.kind = "json" /\ response.shape = "other"

C10_ValidConfiguration ==
    /\ time_zone_abbr \in TableZones
    /\ convert_to_utc(local_day_start, time_zone_abbr).kind = "return"
    /\ convert_to_utc(local_day_end, time_zone_abbr).kind = "return"

\* C10: after a failed fetch, under a valid configuration, the orchestrator
\* does not raise and returns empty gaps
C10_FetchFailureNeverRaises ==
    (C10_FetchFailed /\ C10_ValidConfiguration) =>
        /\ pc # "raised"
        /\ pc = "returned" =>
              (IF module_variant = "slots" THEN outcome.value ELSE outcome.value[1]) = <<>>

(***************************************************************************)
(* C11: get_open_slots converts local_start/local_end to UTC first, then   *)
(* fetches the schedule exactly once, then calls find_gaps; so a call with *)
(* an invalid time zone abbreviation is rejected before any schedule fetch *)
(* is issued.                                                              *)
(***************************************************************************)
C11_ConvertThenFetchOnceThenFindGaps ==
    /\ fetches <= 1
    /\ fetches > 0 => required_ranges # <<>>
    /\ pc \in {"find_gaps", "returned"} => (fetches = 1 /\ required_ranges # <<>>)
    /\ time_zone_abbr \notin TableZones => fetches = 0

(***************************************************************************)
(* C13: a date on which the selected area has no matching booking never    *)
(* appears in find_gaps' output, whatever the required range; an empty     *)
(* bookings list, or one with no record matching the area, yields an empty *)
(* list without error.                                                     *)
(***************************************************************************)
C13_MatchingDates ==
    {data[i][1] : i \in {j \in 1..Len(data) : Contains(area, data[j][4])}}

C17_FiniteNonEmpty ==
    pc = "hours_done" => (1 <= Len(hours) /\ Len(hours) <= 24)

(***************************************************************************)
(* C19: no record emitted by find_gaps for (date, hour h) overlaps a       *)
(* booking of the selected area on that date: the hour [h, h+1) does not   *)
(* intersect the booking's interval [start, end), also when start or end   *)
(* is off the hour boundary.                                               *)
(***************************************************************************)
\* [h, h+1) meets [start, end) within the booking's date; a booking that
\* crosses midnight runs to the end of its date
C19_Overlaps(h, b) ==
    LET s == strptime_HM(b[2])
        e0 == strptime_HM(b[3])
        e == IF e0 < s THEN DayMinutes ELSE e0
    IN  h * 60 < e /\ s < (h + 1) * 60

\* C19: no returned record's hour meets a booking of the area on its date
C19_NoEmittedHourOverlapsABooking ==
    GapsReturned =>
        \A i \in 1..Len(outcome.value) : \A j \in 1..Len(data) :
            (data[j][4] = area /\ data[j][1] = BookingDateOf(outcome.value[i]))
                => ~C19_Overlaps(UtcHourOf(outcome.value[i]), data[j])

(***************************************************************************)
(* C20: a booking whose end is earlier than its start (crossing midnight   *)
(* UTC) marks all of its hours, before and after midnight, as booked on    *)
(* its own date only; it marks no hour on the following date and does not  *)
(* by itself make the following date appear in the output.                 *)
(***************************************************************************)
C20_Crosses(b) == strptime_HM(b[3]) < strptime_HM(b[2])

\* the hours of a booking: the hour of start + k hours while before the end,
\* the end of a crossing booking being on the next day
C20_HoursOf(b) ==
    LET s == strptime_HM(b[2])
        e == strptime_HM(b[3]) + (IF C20_Crosses(b) THEN 24 * 60 ELSE 0)
    IN  {Clock24((s + 60 * k) \div 60) : k \in {n \in 0..47 : s + 60 * n < e}}

C20_MatchingOn(d) ==
    {i \in 1..Len(data) : Contains(area, data[i][4]) /\ data[i][1] = d}

\* C20: the hours booked on a date are those of the matching bookings of that
\* date, the hours after midnight included, and a date is opened only by a
\* matching booking of its own
C20_CrossingBookingStaysOnItsDate ==
    GapsDone =>
        \A d \in Dates :
            /\ HoursOn(daily_hours, d) = UNION {C20_HoursOf(data[i]) : i \in C20_MatchingOn(d)}
            /\ d \in DictDates(daily_hours) <=> C20_MatchingOn(d) # {}
            /\ (outcome.kind = "return" /\ C20_MatchingOn(d) = {}) =>
                  \A i \in 1..Len(outcome.value) : BookingDateOf(outcome.value[i]) # d

\* C20 witness: one crossing booking on 12/31/24; 22:00, 23:00 and 00:00 are
\* booked on 12/31/24 and 01/01/25 is absent from the dict and the output
C20_Witness ==
    /\ GapsReturned
    /\ Len(data) = 1 /\ C20_Crosses(data[1]) /\ data[1][1] = "12/31/24"
    /\ daily_hours = <<[date |-> "12/31/24", hours |-> {"22:00", "23:00", "00:00"}]>>
    /\ outcome.value # <<>>
    /\ \A i \in 1..Len(outcome.value) : BookingDateOf(outcome.value[i]) = "12/31/24"

(***************************************************************************)
(* C14: the JSON schedule source accepts both document shapes, a top-level *)
(* list of records and an object with a `records` list and a               *)
(* `generated_utc` string; in both cases it returns the records as         *)
(* (session_date, utc_start, utc_end, k3y_area) tuples, and for the object *)
(* shape it returns generated_utc as the freshness marker.                 *)
(***************************************************************************)
C14_JsonServed ==
    /\ entry_point = "get_open_slots_new" /\ fetches > 0
    /\ response.kind = "json" /\ response.shape \in {"list", "object"}

\* C14: a served list or object document is accepted, its records are the
\* fetched rows, and an object's generated_utc is the update information
C14_BothDocumentShapesAccepted ==
    C14_JsonServed =>
        /\ outcome # Raise("schedule-cache.json must contain a list")
        /\ data = response.rows
        /\ response.shape = "object" => update_info = Return(response.generated_utc)

(***************************************************************************)
(* C16: with no settings file present and no command-line flags, the CLI   *)
(* run of each module variant (load_settings, update_settings_from_args,   *)
(* get_open_slots with the built-in defaults) reaches its print stage and  *)
(* prints either the table of gaps or the no-open-slots message, without   *)
(* raising.                                                                *)
(***************************************************************************)
C16_DefaultRun == ~settings_json.present /\ args = NoArgs /\ pc # "cli_start"

\* the schedule source answered the fetch with a well-formed page
C16_PageServed ==
    /\ fetches > 0
    /\ response.kind = "html" /\ response.utf8 /\ response.update # "text_no_em"

\* C16: a default run whose fetch was answered does not raise, and what it
\* has printed at the end holds the table header or the no-open-slots message
C16_DefaultRunReachesPrint ==
    (C16_DefaultRun /\ C16_PageServed) =>
        /\ pc # "raised"
        /\ pc = "printed" =>
              \/ NoOpenSlotsMessage \in Range(stdout)
              \/ TableHeader(settings.TIME_ZONE_ABBR) \in Range(stdout)

(***************************************************************************)
(* C12: when the gap list handed to the dashboard is empty (no bookings    *)
(* for the area, no uncovered hour in the window, or a failed fetch), the  *)
(* dashboard run shows its no-gaps message and finishes the page without   *)
(* raising an exception.                                                   *)
(***************************************************************************)
C12_EmptyGapsHandedOver ==
    /\ cached_result.kind \in {"list", "pair"}
    /\ cached_result.value = <<>>

\* C12: a run that was handed an empty gap list does not raise, and when it
\* has finished the page shows the no-gaps message
C12_EmptyGapsShowMessageAndFinish ==
    C12_EmptyGapsHandedOver =>
        /\ pc # "page_raised"
        /\ pc = "page_done" => NoGapsMessage \in Range(page)

(***************************************************************************)
(* C15: the dashboard's cache in front of get_open_slots is keyed on the   *)
(* full tuple (timezone, area, local start, local end) and, over any       *)
(* sequence of page reruns, issues at most one underlying get_open_slots   *)
(* call per key per 600-second TTL window, except that a Refresh or Save   *)
(* Settings action clears the cache so the next run refetches.             *)
(***************************************************************************)
C15_Calls == {i \in 1..Len(cache_log) : cache_log[i].op = "call"}

C15_ClearedBetween(i, j) == \E k \in (i + 1)..(j - 1) : cache_log[k].op = "clear"

\* the arguments of the run's cached call
C15_Args ==
    <<selection.tz, selection.area, strftime_HM(strptime_IMp(selection.start)),
      strftime_HM(strptime_IMp(selection.end))>>

\* C15: two get_open_slots calls with the same four arguments are a TTL apart
\* or have a clear between them; and what a run is handed was computed by a
\* call with the run's own four arguments, less than a TTL ago and after the
\* last clear
C15_OneCallPerKeyPerWindow ==
    /\ \A i \in C15_Calls : \A j \in C15_Calls :
          (i < j /\ cache_log[i].args = cache_log[j].args)
              => \/ cache_log[j].at - cache_log[i].at >= TTL
                 \/ C15_ClearedBetween(i, j)
    /\ pc = "unpack" =>
          \E i \in C15_Calls :
              /\ cache_log[i].args = C15_Args
              /\ cache_log[i].value = cached_result
              /\ clock - cache_log[i].at < TTL
              /\ ~C15_ClearedBetween(i, Len(cache_log) + 1)

\* C15 witness: three runs with one selection inside one TTL window; the
\* second is served from the cache, the third follows a clear and refetches
C15_Witness ==
    /\ pc = "unpack" /\ runs = 3
    /\ Len(cache_log) = 3
    /\ cache_log[1].op = "call" /\ cache_log[2].op = "clear" /\ cache_log[3].op = "call"
    /\ cache_log[1].args = cache_log[3].args
    /\ cache_log[3].at - cache_log[1].at < TTL
    /\ cache_log[2].at > cache_log[1].at + 200
    /\ fetches = 2

=============================================================================
